---- MODULE Spec2Model ----
(***************************************************************************)
(* Model of .github/scripts/version_utils.py: the five utility functions   *)
(* and the command-line dispatcher main().                                  *)
(*                                                                          *)
(* A Python str is a sequence of characters.  A character is one of the     *)
(* tokens below.  "SP" is U+0020, "LF" is U+000A, "FS" is U+001C (a         *)
(* character str.strip() removes but int() does not accept), "AR2" is       *)
(* U+0662 ARABIC-INDIC DIGIT TWO (matched by \d in a str pattern).  The     *)
(* tokens "VERSION", "README" and "sub/" stand for those runs of letters:   *)
(* strip() and split() only look for whitespace and for the separator, so   *)
(* a run without either is kept as one token.                               *)
(***************************************************************************)
EXTENDS Integers, Sequences, FiniteSets, TLC

VARIABLES sys_argv, pc, stdout, stderr, exit_code, ret, raised, calls, reads,
          called, local_tags, remote_tags, file_state, commit

vars == <<sys_argv, pc, stdout, stderr, exit_code, ret, raised, calls, reads,
          called, local_tags, remote_tags, file_state, commit>>

----------------------------------------------------------------------------
(* Bounds *)

MaxLen == 6

MaxArgs == 3

MaxMajor == 1

MaxMinor == 10

MaxPatch == 1

----------------------------------------------------------------------------
(* Characters and the Python built-ins the script uses *)

AsciiDigit == {"0", "1", "2", "3", "4", "5", "6", "7", "8", "9"}

NonZeroAsciiDigit == AsciiDigit \ {"0"}

\* \d in a str (Unicode) pattern: every Unicode decimal digit
UnicodeDigit == AsciiDigit \cup {"AR2"}

\* characters removed by str.strip() with no argument
StripSpace == {"SP", "LF", "FS"}

\* characters skipped by int() around the literal
IntSpace == {"SP", "LF"}

DigitValue(c) ==
    CASE c = "0" -> 0 [] c = "1" -> 1 [] c = "2" -> 2 [] c = "3" -> 3
      [] c = "4" -> 4 [] c = "5" -> 5 [] c = "6" -> 6 [] c = "7" -> 7
      [] c = "8" -> 8 [] c = "9" -> 9 [] c = "AR2" -> 2

RECURSIVE lstrip_chars(_, _)
lstrip_chars(s, chars) ==
    IF s # <<>> /\ Head(s) \in chars THEN lstrip_chars(Tail(s), chars) ELSE s

RECURSIVE rstrip_chars(_, _)
rstrip_chars(s, chars) ==
    IF s # <<>> /\ s[Len(s)] \in chars
    THEN rstrip_chars(SubSeq(s, 1, Len(s) - 1), chars)
    ELSE s

\* every str of at most n characters of the alphabet
Strings(alphabet, n) == UNION {[1..k -> alphabet] : k \in 0..n}

\* str.strip()
strip(s) == rstrip_chars(lstrip_chars(s, StripSpace), StripSpace)

\* str.split(sep) for a one-character separator: always at least one part
RECURSIVE split(_, _)
split(s, sep) ==
    IF \E i \in 1..Len(s) : s[i] = sep
    THEN LET i == CHOOSE k \in 1..Len(s) :
                      s[k] = sep /\ \A j \in 1..(k - 1) : s[j] # sep
         IN  <<SubSeq(s, 1, i - 1)>> \o split(SubSeq(s, i + 1, Len(s)), sep)
    ELSE <<s>>

RECURSIVE DecimalValue(_)
DecimalValue(s) ==
    IF s = <<>> THEN 0
    ELSE 10 * DecimalValue(SubSeq(s, 1, Len(s) - 1)) + DigitValue(s[Len(s)])

\* int(str): whitespace around the literal is skipped, then every character
\* must be a decimal digit.  (Signs and underscores never reach int() here:
\* compare_versions validates first.)
int(s) ==
    LET body == rstrip_chars(lstrip_chars(s, IntSpace), IntSpace)
    IN  IF body # <<>> /\ \A i \in 1..Len(body) : body[i] \in UnicodeDigit
        THEN [exc |-> "none", val |-> DecimalValue(body)]
        ELSE [exc |-> "ValueError", val |-> 0]

----------------------------------------------------------------------------
(* validate_semantic_version *)

\* positions after one group (0|[1-9]\d*) matched from any position of P
GroupEnds(s, P) ==
    UNION { IF i > Len(s) THEN {}
            ELSE IF s[i] = "0" THEN {i + 1}
            ELSE IF s[i] \in NonZeroAsciiDigit
                 THEN {j \in (i + 1)..(Len(s) + 1) :
                          \A k \in (i + 1)..(j - 1) : s[k] \in UnicodeDigit}
                 ELSE {} : i \in P }

\* positions after a literal \. matched from any position of P
DotEnds(s, P) == {i + 1 : i \in {p \in P : p <= Len(s) /\ s[p] = "."}}

\* $ without re.MULTILINE: the end, or just before a final newline
AtEnd(s, i) == i = Len(s) + 1 \/ (i = Len(s) /\ s[i] = "LF")

\* re.match(pattern, s) is not None; ^ anchors at position 1
re_match(s) ==
    LET g1 == GroupEnds(s, {1})
        g2 == GroupEnds(s, DotEnds(s, g1))
        g3 == GroupEnds(s, DotEnds(s, g2))
    IN  \E e \in g3 : AtEnd(s, e)

validate_semantic_version(version) == re_match(strip(version))

----------------------------------------------------------------------------
(* compare_versions *)

\* parse_version: version.split('.') then int() of the first three parts
parse_version(version) ==
    LET parts == split(version, ".")
    IN  IF Len(parts) < 3 THEN [exc |-> "IndexError", val |-> <<0, 0, 0>>]
        ELSE IF \E i \in 1..3 : int(parts[i]).exc # "none"
             THEN [exc |-> "ValueError", val |-> <<0, 0, 0>>]
             ELSE [exc |-> "none",
                   val |-> <<int(parts[1]).val, int(parts[2]).val,
                             int(parts[3]).val>>]

\* Python's < on tuples of three ints
TupleLess(a, b) ==
    \/ a[1] < b[1]
    \/ a[1] = b[1] /\ a[2] < b[2]
    \/ a[1] = b[1] /\ a[2] = b[2] /\ a[3] < b[3]

\* the three-way result of lines 121-126
three_way(v1_parts, v2_parts) ==
    IF TupleLess(v1_parts, v2_parts) THEN -1
    ELSE IF TupleLess(v2_parts, v1_parts) THEN 1
    ELSE 0

\* [exc, val]: the exception that leaves the function, or the value returned
compare_versions(version1, version2) ==
    IF ~validate_semantic_version(version1) \/ ~validate_semantic_version(version2)
    THEN [exc |-> "ValueError", val |-> 0]
    ELSE LET p1 == parse_version(version1)
             p2 == parse_version(version2)
         IN  IF p1.exc # "none" THEN [exc |-> p1.exc, val |-> 0]
             ELSE IF p2.exc # "none" THEN [exc |-> p2.exc, val |-> 0]
             ELSE [exc |-> "none", val |-> three_way(p1.val, p2.val)]

----------------------------------------------------------------------------
(* The process: values, output and the environment *)

Prog == "version_utils.py"

\* what a utility function returned: a bool, a str, an int or None
Unset == [kind |-> "unset", b |-> FALSE, s |-> <<>>, n |-> 0]

RetNone == [kind |-> "None", b |-> FALSE, s |-> <<>>, n |-> 0]

RetBool(b) == [kind |-> "bool", b |-> b, s |-> <<>>, n |-> 0]

RetStr(s) == [kind |-> "str", b |-> FALSE, s |-> s, n |-> 0]

RetInt(n) == [kind |-> "int", b |-> FALSE, s |-> <<>>, n |-> n]

\* Python truthiness of an Optional[str]
Truthy(r) == r.kind = "str" /\ r.s # <<>>

\* one print() call: which message, and the value formatted into it
Line(kind, text) == [kind |-> kind, text |-> text]

NoFile == [kind |-> "unused", content |-> <<>>]

NoCommit == [has_parent |-> FALSE, changed |-> <<>>,
             present |-> FALSE, content |-> <<>>]

NoRemote == [configured |-> FALSE, tags |-> {}]

\* sys.exit(code) after the print() calls of the branch
Exit(lines, code) ==
    /\ stdout' = stdout \o lines
    /\ exit_code' = code
    /\ pc' = "exit"

Env == <<local_tags, remote_tags, file_state, commit>>

\* the process as main() is entered
Start(argv) ==
    /\ sys_argv = argv
    /\ pc = "main"
    /\ stdout = <<>>
    /\ stderr = <<>>
    /\ exit_code = -1
    /\ ret = Unset
    /\ raised = "none"
    /\ calls = <<>>
    /\ reads = 0
    /\ called = <<>>

NoEnv ==
    /\ local_tags = {}
    /\ remote_tags = NoRemote
    /\ file_state = NoFile
    /\ commit = NoCommit

----------------------------------------------------------------------------
(* main(): no command, validate, compare, unknown command *)

main_no_command ==
    /\ pc = "main"
    /\ Len(sys_argv) < 2
    /\ Exit(<<Line("usage", <<>>)>>, 1)
    /\ UNCHANGED <<sys_argv, stderr, ret, raised, calls, reads, called, Env>>

validate_exit_code(valid) == IF valid THEN 0 ELSE 1

main_validate ==
    /\ pc = "main"
    /\ Len(sys_argv) >= 2
    /\ sys_argv[2] = "validate"
    /\ \/ /\ Len(sys_argv) # 3
          /\ Exit(<<Line("usage", <<>>)>>, 1)
          /\ UNCHANGED <<ret, called>>
       \/ /\ Len(sys_argv) = 3
          /\ LET version == sys_argv[3]
                 valid == validate_semantic_version(version)
             IN  /\ called' = Append(called, "validate_semantic_version")
                 /\ ret' = RetBool(valid)
                 /\ Exit(<<Line(IF valid THEN "valid" ELSE "invalid", version)>>,
                         validate_exit_code(valid))
    /\ UNCHANGED <<sys_argv, stderr, raised, calls, reads, Env>>

compare_line(result) ==
    IF result = -1 THEN "less" ELSE IF result = 0 THEN "equal" ELSE "greater"

main_compare ==
    /\ pc = "main"
    /\ Len(sys_argv) >= 2
    /\ sys_argv[2] = "compare"
    /\ \/ /\ Len(sys_argv) # 4
          /\ Exit(<<Line("usage", <<>>)>>, 1)
          /\ UNCHANGED <<ret, called, raised, stderr>>
       \/ /\ Len(sys_argv) = 4
          /\ LET v1 == sys_argv[3]
                 v2 == sys_argv[4]
                 r == compare_versions(v1, v2)
             IN  /\ called' = Append(called, "compare_versions")
                 /\ raised' = r.exc
                 /\ ret' = IF r.exc = "none" THEN RetInt(r.val) ELSE Unset
                 \* only ValueError is caught (line 248); anything else ends
                 \* the process with a traceback on standard error
                 /\ stderr' = IF r.exc \in {"none", "ValueError"} THEN stderr
                              ELSE Append(stderr, Line("traceback", <<>>))
                 /\ IF r.exc = "none"
                    THEN Exit(<<Line(compare_line(r.val), v1 \o v2)>>, 0)
                    ELSE IF r.exc = "ValueError"
                         THEN Exit(<<Line("error", <<>>)>>, 1)
                         ELSE Exit(<<>>, 1)
    /\ UNCHANGED <<sys_argv, calls, reads, Env>>

----------------------------------------------------------------------------
(* git_tag_exists and main()'s check-tag branch *)

tag_name(version) == <<"v">> \o version

\* what subprocess.run gives: an exception (the program cannot be started),
\* or a completed process with its status and captured standard output
Completed(cmd, returncode, out) ==
    [cmd |-> cmd, exc |-> "none", returncode |-> returncode, stdout |-> out]

\* no process completed: returncode and stdout are never read
Failed(cmd) == [cmd |-> cmd, exc |-> "OSError", returncode |-> 0, stdout |-> <<>>]

\* a command that ends with a non-zero status, with or without output
NonZero(cmd) == {Completed(cmd, 128, out) : out \in {<<>>, <<"partial", "LF">>}}

\* git tag -l <tag>: one line per tag of that name
LocalTagResults(tag) ==
    {Completed("tag -l", 0, IF tag \in local_tags THEN tag \o <<"LF">> ELSE <<>>)}
        \cup NonZero("tag -l") \cup {Failed("tag -l")}

\* git ls-remote --tags origin <tag>: one line per matching ref of the remote;
\* without a remote named origin the command fails
RemoteTagResults(tag) ==
    (IF remote_tags.configured
     THEN {Completed("ls-remote", 0,
                     IF tag \in remote_tags.tags
                     THEN <<"sha", "SP", "refs/tags/">> \o tag \o <<"LF">>
                     ELSE <<>>)}
     ELSE {})
        \cup NonZero("ls-remote") \cup {Failed("ls-remote")}

\* line 82 without the test of the output: a status of 0 alone counts as found
local_found_status_only(result) == result.returncode = 0

\* line 82
local_found(result) == result.returncode = 0 /\ strip(result.stdout) # <<>>

\* line 93
remote_found(result) == result.returncode = 0 /\ strip(result.stdout) # <<>>

main_check_tag ==
    /\ pc = "main"
    /\ Len(sys_argv) >= 2
    /\ sys_argv[2] = "check-tag"
    /\ \/ /\ Len(sys_argv) # 3
          /\ Exit(<<Line("usage", <<>>)>>, 1)
          /\ UNCHANGED called
       \/ /\ Len(sys_argv) = 3
          /\ called' = Append(called, "git_tag_exists")
          /\ pc' = "tag_local"
          /\ UNCHANGED <<stdout, exit_code>>
    /\ UNCHANGED <<sys_argv, stderr, ret, raised, calls, reads, Env>>

\* lines 73-83, and the handler of lines 95-97
git_tag_local ==
    /\ pc = "tag_local"
    /\ \E result \in LocalTagResults(tag_name(sys_argv[3])) :
          /\ calls' = Append(calls, result)
          /\ IF result.exc # "none"
             THEN /\ stdout' = Append(stdout, Line("error_tag", <<>>))
                  /\ ret' = RetBool(FALSE)
                  /\ pc' = "tag_return"
             ELSE IF local_found(result)
                  THEN /\ ret' = RetBool(TRUE)
                       /\ pc' = "tag_return"
                       /\ UNCHANGED stdout
                  ELSE /\ pc' = "tag_remote"
                       /\ UNCHANGED <<stdout, ret>>
    /\ UNCHANGED <<sys_argv, stderr, exit_code, raised, reads, called, Env>>

\* lines 86-93, and the handler of lines 95-97
git_tag_remote ==
    /\ pc = "tag_remote"
    /\ \E result \in RemoteTagResults(tag_name(sys_argv[3])) :
          /\ calls' = Append(calls, result)
          /\ IF result.exc # "none"
             THEN /\ stdout' = Append(stdout, Line("error_tag", <<>>))
                  /\ ret' = RetBool(FALSE)
             ELSE /\ ret' = RetBool(remote_found(result))
                  /\ UNCHANGED stdout
          /\ pc' = "tag_return"
    /\ UNCHANGED <<sys_argv, stderr, exit_code, raised, reads, called, Env>>

\* lines 217-222 with the exit codes of the two branches exchanged
check_tag_exit_code_not_inverted(exists) == IF exists THEN 0 ELSE 1

\* lines 217-222
check_tag_exit_code(exists) == IF exists THEN 1 ELSE 0

main_check_tag_exit ==
    /\ pc = "tag_return"
    /\ Exit(<<Line(IF ret.b THEN "tag_exists" ELSE "tag_free", sys_argv[3])>>,
            check_tag_exit_code(ret.b))
    /\ UNCHANGED <<sys_argv, stderr, ret, raised, calls, reads, called, Env>>

----------------------------------------------------------------------------
(* read_version_from_file and main()'s read-version branch *)

main_read_version ==
    /\ pc = "main"
    /\ Len(sys_argv) >= 2
    /\ sys_argv[2] = "read-version"
    /\ called' = Append(called, "read_version_from_file")
    /\ pc' = "read_file"
    /\ UNCHANGED <<sys_argv, stdout, stderr, exit_code, ret, raised, calls,
                   reads, Env>>

\* line 45 without .strip()
file_version_unstripped(content) == content

\* line 45
file_version(content) == strip(content)

\* lines 43-58; file_state is the file at sys.argv[2], or at "VERSION"
read_version_from_file ==
    /\ pc = "read_file"
    /\ reads' = reads + 1
    /\ IF file_state.kind = "missing"
       THEN /\ stdout' = Append(stdout, Line("error_not_found", <<>>))
            /\ ret' = RetNone
       ELSE IF file_state.kind = "unreadable"
            THEN /\ stdout' = Append(stdout, Line("error_reading", <<>>))
                 /\ ret' = RetNone
            ELSE LET version == file_version(file_state.content)
                 IN  IF validate_semantic_version(version)
                     THEN /\ ret' = RetStr(version)
                          /\ UNCHANGED stdout
                     ELSE /\ stdout' = Append(stdout,
                                              Line("error_invalid", version))
                          /\ ret' = RetNone
    /\ pc' = "read_return"
    /\ UNCHANGED <<sys_argv, stderr, exit_code, raised, calls, called, Env>>

main_read_version_exit ==
    /\ pc = "read_return"
    /\ IF Truthy(ret)
       THEN Exit(<<Line("version", ret.s)>>, 0)
       ELSE Exit(<<>>, 1)
    /\ UNCHANGED <<sys_argv, stderr, ret, raised, calls, reads, called, Env>>

----------------------------------------------------------------------------
(* get_git_commit_version_change and main()'s check-commit branch *)

VERSION == <<"VERSION">>

RECURSIVE JoinLines(_)
JoinLines(names) ==
    IF names = <<>> THEN <<>>
    ELSE Head(names) \o <<"LF">> \o JoinLines(Tail(names))

\* git diff --name-only <commit>^ <commit>: the changed paths, one per line;
\* it fails when the commit has no parent
DiffResults ==
    (IF commit.has_parent
     THEN {Completed("diff", 0, JoinLines(commit.changed))}
     ELSE {})
        \cup NonZero("diff") \cup {Failed("diff")}

\* git show <commit>:VERSION: the content of VERSION in the commit's tree;
\* it fails when the tree has no such file
ShowResults ==
    (IF commit.present
     THEN {Completed("show", 0, commit.content)}
     ELSE {})
        \cup NonZero("show") \cup {Failed("show")}

\* line 148
changed_files(out) == split(strip(out), "LF")

\* line 150
version_changed(files) == \E i \in 1..Len(files) : files[i] = VERSION

\* the handlers of lines 168-173; check=True turns a non-zero status into
\* CalledProcessError
command_error(result) ==
    IF result.exc # "none" THEN Line("error_unexpected", <<>>)
    ELSE Line("error_commit", <<>>)

command_failed(result) == result.exc # "none" \/ result.returncode # 0

main_check_commit ==
    /\ pc = "main"
    /\ Len(sys_argv) >= 2
    /\ sys_argv[2] = "check-commit"
    /\ called' = Append(called, "get_git_commit_version_change")
    /\ pc' = "git_diff"
    /\ UNCHANGED <<sys_argv, stdout, stderr, exit_code, ret, raised, calls,
                   reads, Env>>

\* lines 139-150, 166
git_diff ==
    /\ pc = "git_diff"
    /\ \E result \in DiffResults :
          /\ calls' = Append(calls, result)
          /\ IF command_failed(result)
             THEN /\ stdout' = Append(stdout, command_error(result))
                  /\ ret' = RetNone
                  /\ pc' = "commit_return"
             ELSE IF version_changed(changed_files(result.stdout))
                  THEN /\ pc' = "git_show"
                       /\ UNCHANGED <<stdout, ret>>
                  ELSE /\ ret' = RetNone
                       /\ pc' = "commit_return"
                       /\ UNCHANGED stdout
    /\ UNCHANGED <<sys_argv, stderr, exit_code, raised, reads, called, Env>>

\* lines 152-164
git_show ==
    /\ pc = "git_show"
    /\ \E result \in ShowResults :
          /\ calls' = Append(calls, result)
          /\ IF command_failed(result)
             THEN /\ stdout' = Append(stdout, command_error(result))
                  /\ ret' = RetNone
             ELSE LET version == strip(result.stdout)
                  IN  IF validate_semantic_version(version)
                      THEN /\ ret' = RetStr(version)
                           /\ UNCHANGED stdout
                      ELSE /\ stdout' = Append(stdout,
                                               Line("error_invalid", version))
                           /\ ret' = RetNone
          /\ pc' = "commit_return"
    /\ UNCHANGED <<sys_argv, stderr, exit_code, raised, reads, called, Env>>

main_check_commit_exit ==
    /\ pc = "commit_return"
    /\ IF Truthy(ret)
       THEN Exit(<<Line("version", ret.s)>>, 0)
       ELSE Exit(<<Line("no_change", <<>>)>>, 1)
    /\ UNCHANGED <<sys_argv, stderr, ret, raised, calls, reads, called, Env>>

Commands == {"validate", "check-tag", "read-version", "compare", "check-commit"}

\* lines 262-264
main_unknown ==
    /\ pc = "main"
    /\ Len(sys_argv) >= 2
    /\ sys_argv[2] \notin Commands
    /\ Exit(<<Line("unknown_command", <<>>)>>, 1)
    /\ UNCHANGED <<sys_argv, stderr, ret, raised, calls, reads, called, Env>>

----------------------------------------------------------------------------
(* One run of the tool *)

V100 == <<"1", ".", "0", ".", "0">>

V101 == <<"1", ".", "0", ".", "1">>

\* arguments of the command line: versions, and names used as path or commit
CliArgs == {V100, V101, <<"1", ".", "0">>}

TagUniverse == {tag_name(V100), tag_name(V101)}

FileContents ==
    { V100 \o <<"LF">>,
      <<"SP">> \o V100 \o <<"SP", "LF">>,
      <<"1", ".", "1", "0", ".", "0">>,
      <<"1", ".", "0", "LF">>,
      <<>> }

README == <<"README">>

\* a file whose name starts with a space
SpaceVERSION == <<"SP", "VERSION">>

SubVERSION == <<"sub/", "VERSION">>

\* the changed paths of a commit, in git's (byte) order
ChangedLists ==
    { <<>>, <<README>>, <<VERSION>>, <<README, VERSION>>, <<SpaceVERSION>>,
      <<SpaceVERSION, README>>, <<README, SubVERSION>> }

Argvs ==
    {<<Prog>>} \cup
    {<<Prog, c>> \o args : c \in Commands \cup {"bogus"},
                           args \in Strings(CliArgs, MaxArgs)}

TagEnv ==
    /\ local_tags \in SUBSET TagUniverse
    /\ remote_tags \in {NoRemote} \cup
           {[configured |-> TRUE, tags |-> ts] : ts \in SUBSET TagUniverse}
    /\ file_state = NoFile
    /\ commit = NoCommit

FileEnv ==
    /\ local_tags = {}
    /\ remote_tags = NoRemote
    /\ file_state \in {[kind |-> "missing", content |-> <<>>],
                       [kind |-> "unreadable", content |-> <<>>]} \cup
                      {[kind |-> "file", content |-> c] : c \in FileContents}
    /\ commit = NoCommit

CommitEnv ==
    /\ local_tags = {}
    /\ remote_tags = NoRemote
    /\ file_state = NoFile
    /\ commit \in {[has_parent |-> h, changed |-> ch, present |-> TRUE, content |-> c] :
                      h \in BOOLEAN, ch \in ChangedLists, c \in FileContents} \cup
                  {[has_parent |-> h, changed |-> ch, present |-> FALSE, content |-> <<>>] :
                      h \in BOOLEAN, ch \in ChangedLists}

\* the part of the environment a command does not look at is left out
Init ==
    \E argv \in Argvs :
        /\ Start(argv)
        /\ IF Len(argv) < 2 THEN NoEnv
           ELSE IF argv[2] = "check-tag" THEN TagEnv
           ELSE IF argv[2] = "read-version" THEN FileEnv
           ELSE IF argv[2] = "check-commit" THEN CommitEnv
           ELSE NoEnv

Next ==
    \/ main_no_command
    \/ main_validate
    \/ main_check_tag
    \/ git_tag_local
    \/ git_tag_remote
    \/ main_check_tag_exit
    \/ main_read_version
    \/ read_version_from_file
    \/ main_read_version_exit
    \/ main_compare
    \/ main_check_commit
    \/ git_diff
    \/ git_show
    \/ main_check_commit_exit
    \/ main_unknown

Spec == Init /\ [][Next]_vars

----------------------------------------------------------------------------
(* validate_semantic_version on every short string *)

ValidateAlphabet == {"0", "1", ".", "SP", "a", "AR2"}

\* longer strings of the spec's examples, with the characters left out of
\* ValidateAlphabet
ValidateExtras ==
    { <<"SP", "1", ".", "0", ".", "0", "SP", "LF">>,
      <<"1", ".", "0", ".", "0", "-", "r", "c", "1">>,
      <<"1", ".", "1", "0", ".", "0">>,
      <<"1", ".", "2", ".", "3", ".", "4">>,
      <<"FS", "1", ".", "2", ".", "3">> }

InitValidate ==
    /\ \/ \E s \in Strings(ValidateAlphabet, MaxLen) \cup ValidateExtras :
             Start(<<Prog, "validate", s>>)
       \/ \E args \in {<<>>, <<<<"1", ".", "0", ".", "0">>, <<"0">>>>} :
             Start(<<Prog, "validate">> \o args)
    /\ NoEnv

SpecValidate == InitValidate /\ [][main_validate]_vars

\* the stripped string is exactly three dot-separated groups
ThreeGroups(s) ==
    \E i, j \in 1..Len(s) :
        /\ i < j
        /\ \A k \in 1..Len(s) : (s[k] = ".") <=> (k \in {i, j})

GroupsOf(s) ==
    LET dots == {k \in 1..Len(s) : s[k] = "."}
        i == CHOOSE k \in dots : \A m \in dots : k <= m
        j == CHOOSE k \in dots : \A m \in dots : m <= k
    IN  <<SubSeq(s, 1, i - 1), SubSeq(s, i + 1, j - 1), SubSeq(s, j + 1, Len(s))>>

\* the single digit 0, or a sequence of the digits 0-9 not starting with 0
StrictGroup(g) ==
    \/ g = <<"0">>
    \/ /\ g # <<>>
       /\ \A k \in 1..Len(g) : g[k] \in AsciiDigit
       /\ g[1] # "0"

StrictVersionForm(s) ==
    /\ ThreeGroups(s)
    /\ \A k \in 1..3 : StrictGroup(GroupsOf(s)[k])

ValidateReturned ==
    pc = "exit" /\ sys_argv[2] = "validate" /\ Len(sys_argv) = 3

\* C1: validate_semantic_version(s) is true exactly when the stripped s is
\* three dot-separated groups, each 0 or a digit sequence not starting with
\* 0, and it never raises.
C1_ValidateIsStrictForm ==
    ValidateReturned =>
        /\ ret.kind = "bool"
        /\ raised = "none"
        /\ ret.b <=> StrictVersionForm(strip(sys_argv[3]))

----------------------------------------------------------------------------
(* compare_versions on pairs of rendered versions *)

Digits == <<"0", "1", "2", "3", "4", "5", "6", "7", "8", "9">>

\* str(n) of a non-negative int: decimal, no leading zero
RECURSIVE Render(_)
Render(n) ==
    IF n < 10 THEN <<Digits[n + 1]>>
    ELSE Render(n \div 10) \o <<Digits[(n % 10) + 1]>>

VersionString(t) == Render(t[1]) \o <<".">> \o Render(t[2]) \o <<".">> \o Render(t[3])

Triples == (0..MaxMajor) \X (0..MaxMinor) \X (0..MaxPatch)

\* versions with whitespace around them, as a shell variable or a file gives
Padded ==
    { <<"SP">> \o VersionString(<<1, 0, 0>>) \o <<"SP", "LF">>,
      VersionString(<<1, 1, 0>>) \o <<"LF">>,
      <<"FS">> \o VersionString(<<1, 0, 1>>) }

Malformed ==
    { <<"1", ".", "2">>, <<"a", "b", "c">>, <<"0", "1", ".", "0", ".", "0">>,
      <<"1", ".", "0", ".", "0", "-", "r", "c", "1">>, <<>> }

CompareInputs == {VersionString(t) : t \in Triples} \cup Padded \cup Malformed

InitCompare ==
    /\ \/ \E v1, v2 \in CompareInputs : Start(<<Prog, "compare", v1, v2>>)
       \/ \E args \in {<<>>, <<VersionString(<<1, 0, 0>>)>>} :
             Start(<<Prog, "compare">> \o args)
    /\ NoEnv

SpecCompare == InitCompare /\ [][main_compare]_vars

\* the integer triple a valid version string denotes
TripleOf(s) == CHOOSE t \in Triples : VersionString(t) = strip(s)

\* lexicographic order on (major, minor, patch)
LexOrder(t, u) ==
    IF t = u THEN 0
    ELSE LET k == CHOOSE i \in 1..3 : t[i] # u[i] /\ \A j \in 1..(i - 1) : t[j] = u[j]
         IN  IF t[k] < u[k] THEN -1 ELSE 1

CompareReturned ==
    pc = "exit" /\ sys_argv[2] = "compare" /\ Len(sys_argv) = 4

\* C2: compare_versions raises ValueError when an argument fails validation;
\* for two valid versions it returns the lexicographic order of the integer
\* triples, 0 exactly for equal triples, and compare(a, b) = -compare(b, a).
C2_CompareIsNumericOrder ==
    CompareReturned =>
        LET a == sys_argv[3]
            b == sys_argv[4]
        IN  IF ~validate_semantic_version(a) \/ ~validate_semantic_version(b)
            THEN raised = "ValueError"
            ELSE /\ raised = "none"
                 /\ ret.kind = "int"
                 /\ ret.n = LexOrder(TripleOf(a), TripleOf(b))
                 /\ (ret.n = 0) <=> (TripleOf(a) = TripleOf(b))
                 /\ compare_versions(b, a).val = -ret.n

----------------------------------------------------------------------------
(* read_version_from_file *)

ReadReturned == pc = "read_return"

\* C3: read_version_from_file returns the stripped content exactly when the
\* file exists, is readable and that content passes validation; otherwise it
\* returns None; it never raises.
C3_ReadReturnsStrippedValidContent ==
    ReadReturned =>
        /\ raised = "none"
        /\ IF /\ file_state.kind = "file"
              /\ validate_semantic_version(strip(file_state.content))
           THEN ret = RetStr(strip(file_state.content))
           ELSE ret = RetNone

\* a file with whitespace around a valid version has been read
C3_Witness ==
    /\ ReadReturned
    /\ ret.kind = "str"
    /\ ret.s # file_state.content

----------------------------------------------------------------------------
(* git_tag_exists and check-tag *)

TagReturned == pc = "tag_return"

TheTag == tag_name(sys_argv[3])

InLocalStore == TheTag \in local_tags

InRemoteStore == remote_tags.configured /\ TheTag \in remote_tags.tags

\* a query that completed with status 0 and printed something other than
\* whitespace
Reported(call) ==
    /\ call.exc = "none"
    /\ call.returncode = 0
    /\ \E i \in 1..Len(call.stdout) : call.stdout[i] \notin StripSpace

QueryReportedTag ==
    /\ Len(calls) >= 1
    /\ \/ Reported(calls[1])
       \/ /\ calls[1].exc = "none"
          /\ Len(calls) = 2
          /\ Reported(calls[2])

\* C4 as stated: git_tag_exists is true exactly when the tag is in the local
\* or in the remote store, whatever the outcome of the two queries.
C4_TagExistsIsStoreUnion ==
    TagReturned => (ret.b <=> (InLocalStore \/ InRemoteStore))

\* C4 as amended: git_tag_exists is true exactly when a query that completed
\* with status 0 reported the tag: the local query, or the remote query run
\* after a local query that raised nothing and reported nothing.
C4_TagExistsIsQueryReport ==
    TagReturned => (ret.kind = "bool" /\ (ret.b <=> QueryReportedTag))

\* the tag is on the remote, the remote query failed, and the answer is False
C4_Witness ==
    /\ TagReturned
    /\ InRemoteStore
    /\ Len(calls) = 2
    /\ calls[2].returncode # 0
    /\ ret.b = FALSE

CheckTagExited ==
    pc = "exit" /\ Len(sys_argv) = 3 /\ sys_argv[2] = "check-tag"

\* C6 as stated: check-tag exits 0 only when the tag is in neither store and
\* exits 1 whenever it is in one, whatever the outcome of the queries.
C6_ExitZeroOnlyIfTagAbsent ==
    CheckTagExited =>
        /\ exit_code = 0 => ~(InLocalStore \/ InRemoteStore)
        /\ (InLocalStore \/ InRemoteStore) => exit_code = 1

\* C6 as amended: check-tag exits 1 exactly when a query that completed with
\* status 0 reported the tag, and 0 otherwise, also when a query failed.
C6_ExitInvertsQueryReport ==
    CheckTagExited =>
        /\ exit_code \in {0, 1}
        /\ exit_code = 1 <=> QueryReportedTag
        /\ exit_code = 0 <=> ~QueryReportedTag

\* the tag is in the local store, the local query failed, the exit code is 0
C6_Witness ==
    /\ CheckTagExited
    /\ InLocalStore
    /\ calls[1].returncode # 0
    /\ exit_code = 0

----------------------------------------------------------------------------
(* get_git_commit_version_change *)

CommitReturned == pc = "commit_return"

VersionFileChanged == \E i \in 1..Len(commit.changed) : commit.changed[i] = VERSION

CommittedVersionValid ==
    commit.present /\ validate_semantic_version(strip(commit.content))

SomeCommandFailed == \E i \in 1..Len(calls) : command_failed(calls[i])

\* C5: get_git_commit_version_change returns the stripped content of VERSION
\* in the commit exactly when VERSION is among the changed files and that
\* content is valid; it returns None when VERSION did not change, the commit
\* has no parent, a git command fails or the content is invalid; no failure
\* of a command leaves the function as an exception.
C5_VersionOnlyWhenVersionFileChanged ==
    CommitReturned =>
        /\ raised = "none"
        /\ ret.kind = "str" =>
              /\ VersionFileChanged
              /\ CommittedVersionValid
              /\ ret.s = strip(commit.content)
        /\ (VersionFileChanged /\ CommittedVersionValid /\ ~SomeCommandFailed)
              => ret.kind = "str"
        /\ (~VersionFileChanged \/ ~commit.has_parent \/ SomeCommandFailed
               \/ ~CommittedVersionValid) => ret = RetNone

----------------------------------------------------------------------------
(* main(): arity, diagnostics, number of external calls *)

NArgs == Len(sys_argv) - 2

\* the arities of section 6 of the specification
Arity(command) ==
    CASE command = "validate" -> {1}
      [] command = "check-tag" -> {1}
      [] command = "read-version" -> {0, 1}
      [] command = "compare" -> {2}
      [] command = "check-commit" -> {0, 1}

WrongInvocation ==
    \/ Len(sys_argv) < 2
    \/ sys_argv[2] \notin Commands
    \/ NArgs \notin Arity(sys_argv[2])

\* C7: an invocation with a wrong argument count, no command or an unknown
\* command calls no utility function, prints usage text and exits with 1.
C7_WrongArityIsUsageError ==
    WrongInvocation =>
        /\ called = <<>>
        /\ calls = <<>>
        /\ reads = 0
        /\ pc = "exit" =>
              /\ exit_code = 1
              /\ Len(stdout) = 1
              /\ stdout[1].kind \in {"usage", "unknown_command"}

Diagnostics ==
    {"error_tag", "error_commit", "error_unexpected", "error_not_found",
     "error_reading", "error_invalid"}

HasDiagnostic(lines) == \E i \in 1..Len(lines) : lines[i].kind \in Diagnostics

\* C8: when an external command of the tag check or of the commit check ended
\* with a non-zero status or an exception, a diagnostic has been printed by
\* the time the function returns.
C8_EveryToolFailureReported ==
    (pc \in {"tag_return", "commit_return"} /\ SomeCommandFailed)
        => (HasDiagnostic(stdout) \/ HasDiagnostic(stderr))

\* C9: when read_version_from_file fails on a missing or unreadable file, the
\* failure is not fatal, its diagnostic is on standard error and nothing
\* about it is on standard output.
C9_ReadFailureOnStderr ==
    (ReadReturned /\ file_state.kind \in {"missing", "unreadable"}) =>
        /\ raised = "none"
        /\ ret = RetNone
        /\ HasDiagnostic(stderr)
        /\ ~HasDiagnostic(stdout)

\* C10: at most two external commands and one file read per run, none run
\* twice; the remote query only after a local query that did not find the
\* tag; the file-content query only after a successful file-list query that
\* lists VERSION.
C10_AtMostTwoCommandsInOrder ==
    /\ Len(calls) <= 2
    /\ reads <= 1
    /\ \A i, j \in 1..Len(calls) : calls[i].cmd = calls[j].cmd => i = j
    /\ \A i \in 1..Len(calls) :
          /\ calls[i].cmd = "ls-remote" =>
                /\ i = 2
                /\ calls[1].cmd = "tag -l"
                /\ calls[1].exc = "none"
                /\ ~Reported(calls[1])
          /\ calls[i].cmd = "show" =>
                /\ i = 2
                /\ calls[1].cmd = "diff"
                /\ ~command_failed(calls[1])
                /\ VersionFileChanged

====
